---------------------------- MODULE Spec2Model ----------------------------
(***************************************************************************)
(* Compliance dashboard API (src/main.py): the PPM plan lifecycle update,  *)
(* the Active-PPM view, the site listing with its filter compiler, the     *)
(* summary counters, the due-status classifier, the site status update and *)
(* the plans of a site.                                                    *)
(*                                                                         *)
(* Text is modelled as a tuple of one-character strings, so that the shape *)
(* test of the request validator, SQLite's bytewise text comparison and    *)
(* Python's date.fromisoformat all work on the characters, as in the code. *)
(* Python's None / SQL NULL, True and False are the tuples None, PyTrue    *)
(* and PyFalse, whose single element is longer than one character and so   *)
(* is no text.                                                             *)
(*                                                                         *)
(* Assumptions: the process runs in UTC, so that SQLite's date('now') and  *)
(* Python's date.today() are the same day; a handler runs within one day   *)
(* and the exchanges of request and response are served one after another, *)
(* except GET /api/summary in SpecConcurrent, which runs statement by      *)
(* statement beside them (variable summary).                               *)
(***************************************************************************)
EXTENDS Integers, Sequences, FiniteSets, TLC

VARIABLES site, ppm_plan, clock, request, response, summary

vars == <<site, ppm_plan, clock, request, response, summary>>

-----------------------------------------------------------------------------
(* Bounds of the model.                                                     *)

\* Number of midnights that may pass during a run.
MaxDays == 1

\* Largest number of keys a PATCH /api/ppm JSON body carries.
MaxFields == 2

-----------------------------------------------------------------------------
(* Python and SQL values.                                                   *)

None == <<"None">>

PyTrue == <<"True">>

PyFalse == <<"False">>

\* The exception a validator or date.fromisoformat raises.
ValueError == <<"ValueError">>

\* Python truthiness of a text or None.
Truthy(v) == v # None /\ v # <<>>

\* Python `v or None`.
OrNone(v) == IF Truthy(v) THEN v ELSE None

-----------------------------------------------------------------------------
(* Characters and text.                                                     *)

Digits == <<"0", "1", "2", "3", "4", "5", "6", "7", "8", "9">>

UpperCase == <<"A", "B", "C", "D", "E", "F", "G", "H", "I", "J", "K", "L", "M",
               "N", "O", "P", "Q", "R", "S", "T", "U", "V", "W", "X", "Y", "Z">>

LowerCase == <<"a", "b", "c", "d", "e", "f", "g", "h", "i", "j", "k", "l", "m",
               "n", "o", "p", "q", "r", "s", "t", "u", "v", "w", "x", "y", "z">>

\* The characters of the model's texts, in ASCII order.
Ascii == <<" ", "%", "-">> \o Digits \o UpperCase \o <<"_">> \o LowerCase

\* Position of a character in the collating (byte) order.
Code == [c \in {Ascii[i] : i \in 1..Len(Ascii)} |->
            CHOOSE i \in 1..Len(Ascii) : Ascii[i] = c]

IsDigit(c) == \E i \in 1..Len(Digits) : Digits[i] = c

DigitVal(c) == (CHOOSE i \in 1..Len(Digits) : Digits[i] = c) - 1

\* SQL LOWER() / Python str.lower() on one ASCII character.
LowerChar(c) ==
    IF \E i \in 1..Len(UpperCase) : UpperCase[i] = c
    THEN LowerCase[CHOOSE i \in 1..Len(UpperCase) : UpperCase[i] = c]
    ELSE c

Lower(s) == [i \in 1..Len(s) |-> LowerChar(s[i])]

\* SQLite's BINARY collation: bytewise, a proper prefix sorts first.
RECURSIVE TextLess(_, _)
TextLess(a, b) ==
    IF b = <<>> THEN FALSE
    ELSE IF a = <<>> THEN TRUE
    ELSE IF Head(a) = Head(b) THEN TextLess(Tail(a), Tail(b))
    ELSE Code[Head(a)] < Code[Head(b)]

TextLeq(a, b) == a = b \/ TextLess(a, b)

\* Python str.strip(): leading and trailing blanks removed.
RECURSIVE LStrip(_)
LStrip(s) == IF s # <<>> /\ Head(s) = " " THEN LStrip(Tail(s)) ELSE s

RECURSIVE RStrip(_)
RStrip(s) ==
    IF s # <<>> /\ s[Len(s)] = " " THEN RStrip(SubSeq(s, 1, Len(s) - 1)) ELSE s

Strip(s) == RStrip(LStrip(s))

\* SQLite LIKE: % matches any run of characters, _ any one character, and
\* ASCII letters match without regard to case.
RECURSIVE Like(_, _)
Like(s, pat) ==
    IF pat = <<>> THEN s = <<>>
    ELSE IF Head(pat) = "%"
         THEN Like(s, Tail(pat)) \/ (s # <<>> /\ Like(Tail(s), pat))
         ELSE /\ s # <<>>
              /\ (Head(pat) = "_" \/ LowerChar(Head(pat)) = LowerChar(Head(s)))
              /\ Like(Tail(s), Tail(pat))

-----------------------------------------------------------------------------
(* The proleptic Gregorian calendar of Python's date and SQLite's date().   *)
(* A day is its ordinal (date.toordinal()).                                 *)

IsLeap(y) == (y % 4 = 0 /\ y % 100 # 0) \/ y % 400 = 0

DaysInMonth(y, m) ==
    IF m = 2 THEN (IF IsLeap(y) THEN 29 ELSE 28)
    ELSE IF m \in {4, 6, 9, 11} THEN 30 ELSE 31

DaysBeforeYear(y) ==
    (y - 1) * 365 + ((y - 1) \div 4) - ((y - 1) \div 100) + ((y - 1) \div 400)

RECURSIVE DaysBeforeMonth(_, _)
DaysBeforeMonth(y, m) ==
    IF m = 1 THEN 0 ELSE DaysBeforeMonth(y, m - 1) + DaysInMonth(y, m - 1)

ToOrdinal(y, m, d) == DaysBeforeYear(y) + DaysBeforeMonth(y, m) + d

\* The years the model's clock and its date arithmetic stay within.
Years == 2024..2026

YearOf(n) == CHOOSE y \in Years : DaysBeforeYear(y) < n /\ n <= DaysBeforeYear(y + 1)

MonthOf(n) ==
    LET y == YearOf(n)
        r == n - DaysBeforeYear(y)
    IN CHOOSE m \in 1..12 : DaysBeforeMonth(y, m) < r
                            /\ r <= DaysBeforeMonth(y, m) + DaysInMonth(y, m)

DayOf(n) == n - DaysBeforeYear(YearOf(n)) - DaysBeforeMonth(YearOf(n), MonthOf(n))

Digit(k) == Digits[k + 1]

\* date.isoformat() / SQLite date(): 'YYYY-MM-DD'.
IsoFormat(n) ==
    LET y == YearOf(n)
        m == MonthOf(n)
        d == DayOf(n)
    IN << Digit(y \div 1000), Digit((y \div 100) % 10), Digit((y \div 10) % 10),
          Digit(y % 10), "-", Digit(m \div 10), Digit(m % 10), "-",
          Digit(d \div 10), Digit(d % 10) >>

\* The fields date.fromisoformat reads out of a ten-character text.
IsoYear(s) == DigitVal(s[1]) * 1000 + DigitVal(s[2]) * 100
              + DigitVal(s[3]) * 10 + DigitVal(s[4])

IsoMonth(s) == DigitVal(s[6]) * 10 + DigitVal(s[7])

IsoDay(s) == DigitVal(s[9]) * 10 + DigitVal(s[10])

\* date.fromisoformat(s) succeeds.
IsIsoDate(s) ==
    /\ Len(s) = 10
    /\ s[5] = "-" /\ s[8] = "-"
    /\ \A i \in {1, 2, 3, 4, 6, 7, 9, 10} : IsDigit(s[i])
    /\ IsoYear(s) >= 1
    /\ IsoMonth(s) \in 1..12
    /\ IsoDay(s) \in 1..DaysInMonth(IsoYear(s), IsoMonth(s))

\* date.fromisoformat(s), as an ordinal.
FromIsoFormat(s) == ToOrdinal(IsoYear(s), IsoMonth(s), IsoDay(s))

\* The day the model starts on.
Day0 == ToOrdinal(2025, 3, 15)

\* The days the model's dates fall on, and their texts (IsoFormat, tabulated).
Days == (Day0 - 31)..(Day0 + 131)

IsoText == [n \in Days |-> IsoFormat(n)]

\* SQLite date('now') and date('now', '+k days').
DateNow == IsoText[clock]

DateNowPlus(k) == IsoText[clock + k]

-----------------------------------------------------------------------------
(* The store: tables site and ppm_plan, as the seed leaves them.            *)

Active == <<"A", "c", "t", "i", "v", "e">>

Closed == <<"C", "l", "o", "s", "e", "d">>

High == <<"H", "i", "g", "h">>

Low == <<"L", "o", "w">>

School == <<"S", "C", "H">>

Office == <<"O", "F", "F">>

\* A retirement reason.
Obsolete == <<"o", "l", "d">>

\* Dates the requests of the model write, and the dates of the seed: plan 1
\* was due the day before the start, plan 3 was retired ten days before.
DuePast == IsoFormat(Day0 - 1)

DueA == IsoFormat(Day0)

DueB == IsoFormat(Day0 + 31)

SuspendTo == IsoFormat(Day0 + 1)

RetiredOn == IsoFormat(Day0 - 10)

\* '15-03-2025': ten characters, the dashes not at positions 4 and 7.
BadDate == <<"1", "5", "-", "0", "3", "-", "2", "0", "2", "5">>

SiteIds == {"S1", "S2", "S3"}

PlanIds == {1, 2, 3}

\* A plan identifier that matches no row.
MissingPlan == 9

SeedSites ==
    [s \in SiteIds |->
        CASE s = "S1" -> [name |-> <<"A", "s", "h">>, site_code |-> <<"A", "1">>,
                          uprn |-> <<"1", "0", "0">>, status |-> Active,
                          site_type_code |-> School, updated_at |-> None]
          [] s = "S2" -> [name |-> <<"E", "l", "m">>, site_code |-> <<"E", "2">>,
                          uprn |-> None, status |-> Closed,
                          site_type_code |-> Office, updated_at |-> None]
          [] s = "S3" -> [name |-> <<"O", "a", "k">>, site_code |-> <<"O", "3">>,
                          uprn |-> <<"3", "0", "0">>, status |-> Active,
                          site_type_code |-> School, updated_at |-> None]]

SeedPlans ==
    [p \in PlanIds |->
        CASE p = 1 -> [site_id |-> "S1", category_id |-> 1, priority |-> High,
                       finished_date |-> None, next_due_date |-> DuePast,
                       is_active |-> 1, retired_at |-> None,
                       retired_reason |-> None, suspended_until |-> None]
          [] p = 2 -> [site_id |-> "S1", category_id |-> 2, priority |-> Low,
                       finished_date |-> None, next_due_date |-> None,
                       is_active |-> 1, retired_at |-> None,
                       retired_reason |-> None, suspended_until |-> None]
          [] p = 3 -> [site_id |-> "S2", category_id |-> 1, priority |-> Low,
                       finished_date |-> RetiredOn, next_due_date |-> RetiredOn,
                       is_active |-> 0, retired_at |-> RetiredOn,
                       retired_reason |-> Obsolete, suspended_until |-> None]]

\* view_active_ppm without the test of suspended_until.
view_ignoring_suspension == {p \in DOMAIN ppm_plan : ppm_plan[p].is_active = 1}

\* view_active_ppm: the identifiers of the plans that are active and not
\* suspended beyond today.
view_active_ppm ==
    {p \in DOMAIN ppm_plan :
        /\ ppm_plan[p].is_active = 1
        /\ \/ ppm_plan[p].suspended_until = None
           \/ TextLeq(ppm_plan[p].suspended_until, DateNow)}

-----------------------------------------------------------------------------
(* PATCH /api/ppm/{ppm_plan_id}.                                            *)

FieldNames == {"finished_date", "next_due_date", "is_active", "retired_reason",
               "retired_at", "suspended_until"}

DateLikeFields == {"finished_date", "next_due_date", "retired_at", "suspended_until"}

\* date_like with the test of the dashes left out: only the length is looked at.
date_like_length_only(v) ==
    IF v \in {None, <<>>} THEN None
    ELSE IF Len(v) = 10 THEN v
    ELSE ValueError

\* PpmUpdate.date_like, the validator of the four date-like fields.
date_like(v) ==
    IF v \in {None, <<>>} THEN None
    ELSE IF Len(v) = 10 /\ v[5] = "-" /\ v[8] = "-" THEN v
    ELSE ValueError

\* The PpmUpdate model built from a JSON body: a key the body lacks takes its
\* default None without being validated; a date-like key is passed through
\* date_like (a field holding ValueError marks the failed validation).
PpmUpdate(json) ==
    [k \in FieldNames |->
        IF k \notin DOMAIN json THEN None
        ELSE IF k \in DateLikeFields THEN date_like(json[k])
        ELSE json[k]]

ValidationFails(body) == \E k \in FieldNames : body[k] = ValueError

\* SetClause with the deactivation branch writing the request's retired_at
\* as it is, without the default date('now').
SetClauseNoDefault(body) ==
    LET loop == SelectSeq(<<"finished_date", "next_due_date", "retired_reason",
                            "suspended_until">>,
                          LAMBDA k : body[k] # None)
        written == [i \in 1..Len(loop) |-> <<loop[i], OrNone(body[loop[i]])>>]
        lifecycle ==
            IF body["is_active"] = None THEN <<>>
            ELSE << <<"is_active", IF body["is_active"] = PyTrue THEN 1 ELSE 0>> >>
                 \o (IF body["is_active"] # PyTrue
                     THEN << <<"retired_at", body["retired_at"]>> >>
                     ELSE << <<"retired_at", None>>, <<"retired_reason", None>> >>)
    IN written \o lifecycle

\* SetClause with the deactivation branch always writing date('now'), the
\* request's retired_at ignored.
SetClauseAlwaysToday(body) ==
    LET loop == SelectSeq(<<"finished_date", "next_due_date", "retired_reason",
                            "suspended_until">>,
                          LAMBDA k : body[k] # None)
        written == [i \in 1..Len(loop) |-> <<loop[i], OrNone(body[loop[i]])>>]
        lifecycle ==
            IF body["is_active"] = None THEN <<>>
            ELSE << <<"is_active", IF body["is_active"] = PyTrue THEN 1 ELSE 0>> >>
                 \o (IF body["is_active"] # PyTrue
                     THEN << <<"retired_at", DateNow>> >>
                     ELSE << <<"retired_at", None>>, <<"retired_reason", None>> >>)
    IN written \o lifecycle

\* SetClause with the loop writing the value of next_due_date into the
\* column finished_date.
SetClauseWrongColumn(body) ==
    LET loop == SelectSeq(<<"finished_date", "next_due_date", "retired_reason",
                            "suspended_until">>,
                          LAMBDA k : body[k] # None)
        written == [i \in 1..Len(loop) |->
                       <<IF loop[i] = "next_due_date" THEN "finished_date" ELSE loop[i],
                         OrNone(body[loop[i]])>>]
        lifecycle ==
            IF body["is_active"] = None THEN <<>>
            ELSE << <<"is_active", IF body["is_active"] = PyTrue THEN 1 ELSE 0>> >>
                 \o (IF body["is_active"] # PyTrue
                     THEN (IF body["retired_at"] # None
                           THEN << <<"retired_at", body["retired_at"]>> >>
                           ELSE << <<"retired_at", DateNow>> >>)
                     ELSE << <<"retired_at", None>>, <<"retired_reason", None>> >>)
    IN written \o lifecycle

\* The SET list api_update_ppm composes: <<column, value>> pairs in the
\* order the code appends them.
SetClause(body) ==
    LET loop == SelectSeq(<<"finished_date", "next_due_date", "retired_reason",
                            "suspended_until">>,
                          LAMBDA k : body[k] # None)
        written == [i \in 1..Len(loop) |-> <<loop[i], OrNone(body[loop[i]])>>]
        lifecycle ==
            IF body["is_active"] = None THEN <<>>
            ELSE << <<"is_active", IF body["is_active"] = PyTrue THEN 1 ELSE 0>> >>
                 \o (IF body["is_active"] # PyTrue
                     THEN (IF body["retired_at"] # None
                           THEN << <<"retired_at", body["retired_at"]>> >>
                           ELSE << <<"retired_at", DateNow>> >>)
                     ELSE << <<"retired_at", None>>, <<"retired_reason", None>> >>)
    IN written \o lifecycle

\* UPDATE ... SET with the leftmost of several assignments to one column
\* standing.
RECURSIVE ApplySetLeftmost(_, _)
ApplySetLeftmost(row, assignments) ==
    IF assignments = <<>> THEN row
    ELSE [ApplySetLeftmost(row, Tail(assignments))
             EXCEPT ![Head(assignments)[1]] = Head(assignments)[2]]

\* SQLite UPDATE ... SET: of several assignments to one column the
\* rightmost one stands.
RECURSIVE ApplySet(_, _)
ApplySet(row, assignments) ==
    IF assignments = <<>> THEN row
    ELSE ApplySet([row EXCEPT ![Head(assignments)[1]] = Head(assignments)[2]],
                  Tail(assignments))

NoRequest == [op |-> "none"]

NoResponse == [status |-> 0]

\* No GET /api/summary is being served beside the exchange.
NoSummary == [pc |-> 0]

\* A client sends PATCH /api/ppm/{id} with a JSON body.
PatchPpm(id, json) ==
    /\ request = NoRequest
    /\ request' = [op |-> "update_ppm", ppm_plan_id |-> id, json |-> json]
    /\ UNCHANGED <<site, ppm_plan, clock, response, summary>>

\* The handler, with the validation of the body that precedes it: 422 when
\* a date-like value is malformed, 400 when nothing is to be written,
\* otherwise one UPDATE of the row with that identifier (no row: no change)
\* and 200.
api_update_ppm ==
    /\ request.op = "update_ppm"
    /\ response = NoResponse
    /\ LET body == PpmUpdate(request.json)
           fields == SetClause(body)
       IN IF ValidationFails(body)
          THEN /\ response' = [status |-> 422, body |-> "Dates must be YYYY-MM-DD"]
               /\ UNCHANGED ppm_plan
          ELSE IF fields = <<>>
          THEN /\ response' = [status |-> 400, body |-> "No updatable fields provided"]
               /\ UNCHANGED ppm_plan
          ELSE /\ ppm_plan' = [p \in DOMAIN ppm_plan |->
                                  IF p = request.ppm_plan_id
                                  THEN ApplySet(ppm_plan[p], fields)
                                  ELSE ppm_plan[p]]
               /\ response' = [status |-> 200, body |-> "ok"]
    /\ UNCHANGED <<site, clock, request, summary>>

\* The client receives the response; the exchange is over.
Deliver ==
    /\ response # NoResponse
    /\ request' = NoRequest
    /\ response' = NoResponse
    /\ UNCHANGED <<site, ppm_plan, clock, summary>>

\* Midnight passes between two requests.
Tick ==
    /\ request = NoRequest
    /\ clock < Day0 + MaxDays
    /\ clock' = clock + 1
    /\ UNCHANGED <<site, ppm_plan, request, response, summary>>

Init ==
    /\ site = SeedSites
    /\ ppm_plan = SeedPlans
    /\ clock = Day0
    /\ request = NoRequest
    /\ response = NoResponse
    /\ summary = NoSummary

-----------------------------------------------------------------------------
(* The lifecycle specification: every JSON body of at most MaxFields keys,  *)
(* sent for plan 1; plans 2 and 3 stand by.                                 *)

RawValues(k) ==
    IF k \in DateLikeFields THEN {None, <<>>, DueB, BadDate}
    ELSE IF k = "retired_reason" THEN {None, <<>>, Obsolete}
    ELSE {None, PyTrue, PyFalse}

AllRawValues == UNION {RawValues(k) : k \in FieldNames}

JsonBodies ==
    UNION { {b \in [K -> AllRawValues] : \A k \in K : b[k] \in RawValues(k)} :
            K \in {K \in SUBSET FieldNames : Cardinality(K) <= MaxFields} }

PatchTargets == {1}

Next ==
    \/ \E id \in PatchTargets, json \in JsonBodies : PatchPpm(id, json)
    \/ api_update_ppm
    \/ Deliver
    \/ Tick

Spec == Init /\ [][Next]_vars

-----------------------------------------------------------------------------
(* The due-status classifier.                                               *)

\* The classifier with a due date of today counted as overdue.
classify_today_is_due(min_next_due, has_overdue) ==
    IF has_overdue THEN "DUE"
    ELSE IF ~Truthy(min_next_due) THEN "OK"
    ELSE IF ~IsIsoDate(min_next_due) THEN "ValueError"
    ELSE LET today == clock
             nd == FromIsoFormat(min_next_due)
         IN IF nd <= today THEN "DUE"
            ELSE IF nd <= today + 30 THEN "DUE_SOON"
            ELSE "OK"

classify_site_status(min_next_due, has_overdue) ==
    IF has_overdue THEN "DUE"
    ELSE IF ~Truthy(min_next_due) THEN "OK"
    ELSE IF ~IsIsoDate(min_next_due) THEN "ValueError"
    ELSE LET today == clock
             nd == FromIsoFormat(min_next_due)
         IN IF nd < today THEN "DUE"
            ELSE IF nd <= today + 30 THEN "DUE_SOON"
            ELSE "OK"

-----------------------------------------------------------------------------
(* GET /api/sites: the filter compiler and the site listing.                *)

All == <<"a", "l", "l">>

Overdue == <<"o", "v", "e", "r", "d", "u", "e">>

Soon == <<"s", "o", "o", "n">>

Quarter == <<"q", "u", "a", "r", "t", "e", "r">>

\* A query parameter, or its default when the query string lacks it.
Param(query, k, default) == IF k \in DOMAIN query THEN query[k] ELSE default

\* Python `(v or "")`.
OrEmpty(v) == IF Truthy(v) THEN v ELSE <<>>

\* The filters dict api_sites builds. category_id is an integer or None:
\* the key is left out of the record when it is None.
Filters(query) ==
    [k \in {"q", "status", "site_type", "priority", "due_window"}
           \cup (IF "category_id" \in DOMAIN query THEN {"category_id"} ELSE {}) |->
        IF k = "category_id" THEN query[k]
        ELSE IF k = "due_window" THEN Param(query, k, All)
        ELSE Strip(OrEmpty(Param(query, k, None)))]

\* Python truthiness of filters.get(k).
FilterSet(filters, k) ==
    /\ k \in DOMAIN filters
    /\ IF k = "category_id" THEN filters[k] # 0 ELSE Truthy(filters[k])

\* SQL comparisons: a NULL operand makes the condition fail.
SqlEq(a, b) == a # None /\ b # None /\ a = b

SqlLess(a, b) == a # None /\ b # None /\ TextLess(a, b)

SqlBetween(v, lo, hi) == v # None /\ TextLeq(lo, v) /\ TextLeq(v, hi)

SqlLowerLike(v, pat) == v # None /\ Like(Lower(v), pat)

\* The plan-level conditions each checked by an EXISTS of its own, so that
\* different plans of the site may meet them.
ExistsPerCondition(filters, s) ==
    LET mine == {ap \in view_active_ppm : ppm_plan[ap].site_id = s}
        dw == IF "due_window" \in DOMAIN filters THEN filters["due_window"] ELSE All
    IN /\ mine # {}
       /\ FilterSet(filters, "category_id") =>
             \E ap \in mine : ppm_plan[ap].category_id = filters["category_id"]
       /\ FilterSet(filters, "priority") =>
             \E ap \in mine : SqlEq(ppm_plan[ap].priority, filters["priority"])
       /\ dw = Overdue => \E ap \in mine : SqlLess(ppm_plan[ap].next_due_date, DateNow)
       /\ dw = Soon =>
             \E ap \in mine : SqlBetween(ppm_plan[ap].next_due_date, DateNow,
                                         DateNowPlus(30))
       /\ dw = Quarter =>
             \E ap \in mine : SqlBetween(ppm_plan[ap].next_due_date, DateNow,
                                         DateNowPlus(90))

\* The EXISTS subquery of build_where: one row ap of view_active_ppm of the
\* site meets every plan-level condition that is set.
ExistsActivePlan(filters, s) ==
    \E ap \in view_active_ppm :
        /\ ppm_plan[ap].site_id = s
        /\ FilterSet(filters, "category_id") =>
              ppm_plan[ap].category_id = filters["category_id"]
        /\ FilterSet(filters, "priority") =>
              SqlEq(ppm_plan[ap].priority, filters["priority"])
        /\ LET dw == IF "due_window" \in DOMAIN filters
                     THEN filters["due_window"] ELSE All
               due == ppm_plan[ap].next_due_date
           IN IF dw = Overdue THEN due # None /\ SqlLess(due, DateNow)
              ELSE IF dw = Soon THEN SqlBetween(due, DateNow, DateNowPlus(30))
              ELSE IF dw = Quarter THEN SqlBetween(due, DateNow, DateNowPlus(90))
              ELSE TRUE

\* build_where: the WHERE clause, as the condition on site s.
build_where(filters, s) ==
    /\ FilterSet(filters, "status") => SqlEq(site[s].status, filters["status"])
    /\ FilterSet(filters, "site_type") =>
          SqlEq(site[s].site_type_code, filters["site_type"])
    /\ FilterSet(filters, "q") =>
          LET like == <<"%">> \o Lower(filters["q"]) \o <<"%">>
          IN \/ SqlLowerLike(site[s].name, like)
             \/ SqlLowerLike(site[s].site_code, like)
             \/ SqlLowerLike(site[s].uprn, like)
    /\ ( \/ FilterSet(filters, "category_id")
         \/ FilterSet(filters, "priority")
         \/ FilterSet(filters, "due_window") )
       => ExistsActivePlan(filters, s)

\* ORDER BY s.name: ascending in the BINARY collation.
RECURSIVE OrderByName(_)
OrderByName(S) ==
    IF S = {} THEN <<>>
    ELSE LET first == CHOOSE m \in S :
                         \A o \in S : TextLeq(site[m].name, site[o].name)
         IN <<first>> \o OrderByName(S \ {first})

\* LIMIT n: a negative n is no limit.
Limit(rows, n) ==
    IF n < 0 \/ n >= Len(rows) THEN rows ELSE SubSeq(rows, 1, n)

\* MIN() over texts: NULLs are skipped, no text gives NULL.
TextMin(T) ==
    IF T \ {None} = {} THEN None
    ELSE CHOOSE m \in T \ {None} : \A o \in T \ {None} : TextLeq(m, o)

\* The row api_sites returns for site s: the three subqueries over
\* view_active_ppm, their normalisation and the classifier.
SiteRow(s) ==
    LET mine == {p \in view_active_ppm : ppm_plan[p].site_id = s}
        min_next_due == OrNone(TextMin({ppm_plan[p].next_due_date : p \in mine}))
        overdue_count ==
            Cardinality({p \in mine : /\ ppm_plan[p].next_due_date # None
                                      /\ SqlLess(ppm_plan[p].next_due_date, DateNow)})
    IN [site_id |-> s, name |-> site[s].name, uprn |-> site[s].uprn,
        site_code |-> site[s].site_code, status |-> site[s].status,
        site_type_code |-> site[s].site_type_code,
        min_next_due |-> min_next_due,
        overdue_count |-> overdue_count,
        active_ppm |-> Cardinality(mine),
        ui_status |-> classify_site_status(min_next_due, overdue_count > 0)]

\* The rows of the listing for a query string.
SiteRows(query) ==
    LET filters == Filters(query)
        matched == OrderByName({s \in DOMAIN site : build_where(filters, s)})
        limited == Limit(matched, Param(query, "limit", 50))
    IN [i \in 1..Len(limited) |-> SiteRow(limited[i])]

\* A client sends GET /api/sites with a query string.
GetSites(query) ==
    /\ request = NoRequest
    /\ request' = [op |-> "sites", query |-> query]
    /\ UNCHANGED <<site, ppm_plan, clock, response, summary>>

\* The handler: the rows, or an internal error when the classifier raises.
api_sites ==
    /\ request.op = "sites"
    /\ response = NoResponse
    /\ LET rows == SiteRows(request.query)
       IN IF \E i \in 1..Len(rows) : rows[i].ui_status = "ValueError"
          THEN response' = [status |-> 500, body |-> "ValueError"]
          ELSE response' = [status |-> 200, body |-> rows]
    /\ UNCHANGED <<site, ppm_plan, clock, request, summary>>

-----------------------------------------------------------------------------
(* GET /api/summary.                                                        *)

\* SummaryCounters with compliant_sites clamped at zero.
SummaryCountersClamped ==
    LET active_sites == Cardinality({s \in DOMAIN site : SqlEq(site[s].status, Active)})
        overdue_plans ==
            {p \in view_active_ppm : /\ ppm_plan[p].next_due_date # None
                                     /\ SqlLess(ppm_plan[p].next_due_date, DateNow)}
        non_compliant_sites ==
            Cardinality({s \in DOMAIN site :
                            \E p \in overdue_plans : ppm_plan[p].site_id = s})
    IN [total_sites |-> Cardinality(DOMAIN site),
        active_sites |-> active_sites,
        total_ppm_active |-> Cardinality(view_active_ppm),
        overdue |-> Cardinality(overdue_plans),
        due_next_30 |->
            Cardinality({p \in view_active_ppm :
                            SqlBetween(ppm_plan[p].next_due_date, DateNow,
                                       DateNowPlus(30))}),
        compliant_sites |-> IF active_sites < non_compliant_sites THEN 0
                            ELSE active_sites - non_compliant_sites,
        non_compliant_sites |-> non_compliant_sites,
        today |-> IsoFormat(clock)]

\* The counters api_summary reads and returns.
SummaryCounters ==
    LET active_sites == Cardinality({s \in DOMAIN site : SqlEq(site[s].status, Active)})
        overdue_plans ==
            {p \in view_active_ppm : /\ ppm_plan[p].next_due_date # None
                                     /\ SqlLess(ppm_plan[p].next_due_date, DateNow)}
        non_compliant_sites ==
            Cardinality({s \in DOMAIN site :
                            \E p \in overdue_plans : ppm_plan[p].site_id = s})
    IN [total_sites |-> Cardinality(DOMAIN site),
        active_sites |-> active_sites,
        total_ppm_active |-> Cardinality(view_active_ppm),
        overdue |-> Cardinality(overdue_plans),
        due_next_30 |->
            Cardinality({p \in view_active_ppm :
                            SqlBetween(ppm_plan[p].next_due_date, DateNow,
                                       DateNowPlus(30))}),
        compliant_sites |-> active_sites - non_compliant_sites,
        non_compliant_sites |-> non_compliant_sites,
        today |-> IsoFormat(clock)]

\* A client sends GET /api/summary.
GetSummary ==
    /\ request = NoRequest
    /\ request' = [op |-> "summary"]
    /\ UNCHANGED <<site, ppm_plan, clock, response, summary>>

api_summary ==
    /\ request.op = "summary"
    /\ response = NoResponse
    /\ response' = [status |-> 200, body |-> SummaryCounters]
    /\ UNCHANGED <<site, ppm_plan, clock, request, summary>>

\* GET /api/summary served beside the exchange, one statement at a time:
\* summary.pc is the statement the handler is at and summary.read holds the
\* values the statements before it returned. The connection runs no
\* transaction, so each SELECT reads the store as it is when it runs.

\* The handler is entered and opens its connection.
SummaryBegin ==
    /\ summary = NoSummary
    /\ summary' = [pc |-> 1, read |-> <<>>]
    /\ UNCHANGED <<site, ppm_plan, clock, request, response>>

\* The value of the i-th SELECT of api_summary on the store as it is now.
SummaryStatement(i) ==
    CASE i = 1 -> SummaryCounters.total_sites
      [] i = 2 -> SummaryCounters.active_sites
      [] i = 3 -> SummaryCounters.total_ppm_active
      [] i = 4 -> SummaryCounters.overdue
      [] i = 5 -> SummaryCounters.due_next_30
      [] i = 6 -> SummaryCounters.non_compliant_sites

\* The handler runs its next SELECT.
SummarySelect ==
    /\ summary.pc \in 1..6
    /\ summary' = [pc |-> summary.pc + 1,
                   read |-> Append(summary.read, SummaryStatement(summary.pc))]
    /\ UNCHANGED <<site, ppm_plan, clock, request, response>>

\* The handler computes compliant_sites and returns the counters it read.
SummaryReturn ==
    /\ summary.pc = 7
    /\ summary' = [pc |-> 8,
                   body |-> [total_sites |-> summary.read[1],
                             active_sites |-> summary.read[2],
                             total_ppm_active |-> summary.read[3],
                             overdue |-> summary.read[4],
                             due_next_30 |-> summary.read[5],
                             compliant_sites |-> summary.read[2] - summary.read[6],
                             non_compliant_sites |-> summary.read[6],
                             today |-> IsoFormat(clock)]]
    /\ UNCHANGED <<site, ppm_plan, clock, request, response>>

\* The client receives the summary.
SummaryDeliver ==
    /\ summary.pc = 8
    /\ summary' = NoSummary
    /\ UNCHANGED <<site, ppm_plan, clock, request, response>>

-----------------------------------------------------------------------------
(* PATCH /api/site/{site_id}.                                               *)

Suspended == <<"S", "u", "s", "p", "e", "n", "d", "e", "d">>

UnderConstruction == <<"U", "n", "d", "e", "r", "-", "C", "o", "n", "s", "t", "r",
                       "u", "c", "t", "i", "o", "n">>

Unknown == <<"U", "n", "k", "n", "o", "w", "n">>

\* The values the SiteUpdate model accepts as status.
SiteStatuses == {Active, Closed, Suspended, UnderConstruction, Unknown}

\* SQLite CURRENT_TIMESTAMP, of which the model keeps the day.
CURRENT_TIMESTAMP == DateNow

\* A client sends PATCH /api/site/{id} with the body {"status": status}.
PatchSite(id, status) ==
    /\ request = NoRequest
    /\ request' = [op |-> "update_site", site_id |-> id, json |-> [status |-> status]]
    /\ UNCHANGED <<site, ppm_plan, clock, response, summary>>

\* api_update_site with the WHERE clause of its UPDATE left out.
api_update_site_every_row ==
    /\ request.op = "update_site"
    /\ response = NoResponse
    /\ IF request.json.status \notin SiteStatuses
       THEN /\ response' = [status |-> 422, body |-> "status"]
            /\ UNCHANGED site
       ELSE /\ site' = [s \in DOMAIN site |->
                           [site[s] EXCEPT !.status = request.json.status,
                                           !.updated_at = CURRENT_TIMESTAMP]]
            /\ response' = [status |-> 200, body |-> "ok"]
    /\ UNCHANGED <<ppm_plan, clock, request, summary>>

\* The handler, with the validation of the body that precedes it: 422 when
\* the status is none of SiteStatuses; otherwise one UPDATE of the row with
\* that identifier, answered 404 and not committed when it touched no row,
\* committed and answered 200 when it did.
api_update_site ==
    /\ request.op = "update_site"
    /\ response = NoResponse
    /\ IF request.json.status \notin SiteStatuses
       THEN /\ response' = [status |-> 422, body |-> "status"]
            /\ UNCHANGED site
       ELSE LET touched == {s \in DOMAIN site : s = request.site_id}
            IN IF Cardinality(touched) = 0
               THEN /\ response' = [status |-> 404, body |-> "site not found"]
                    /\ UNCHANGED site
               ELSE /\ site' = [s \in DOMAIN site |->
                                   IF s \in touched
                                   THEN [site[s] EXCEPT
                                            !.status = request.json.status,
                                            !.updated_at = CURRENT_TIMESTAMP]
                                   ELSE site[s]]
                    /\ response' = [status |-> 200, body |-> "ok"]
    /\ UNCHANGED <<ppm_plan, clock, request, summary>>

-----------------------------------------------------------------------------
(* GET /api/ppm.                                                            *)

\* Table category, a lookup the API only reads.
category == [c \in {1, 2} |-> IF c = 1 THEN <<"F", "i", "r", "e">>
                              ELSE <<"G", "a", "s">>]

\* COALESCE(p.next_due_date, '9999-12-31').
SortKey(p) ==
    IF ppm_plan[p].next_due_date = None
    THEN <<"9", "9", "9", "9", "-", "1", "2", "-", "3", "1">>
    ELSE ppm_plan[p].next_due_date

\* ORDER BY ... ASC over the plans P: every arrangement of P in which the
\* sort keys do not descend (SQL leaves the order of equal keys open).
OrderBySortKey(P) ==
    {o \in [1..Cardinality(P) -> P] :
        /\ \A i, j \in DOMAIN o : i < j => o[i] # o[j]
        /\ \A i, j \in DOMAIN o : i < j => TextLeq(SortKey(o[i]), SortKey(o[j]))}

\* A row of the result: p.* and the name of the plan's category (LEFT JOIN).
PlanRow(p) ==
    [ppm_plan_id |-> p,
     site_id |-> ppm_plan[p].site_id,
     category_id |-> ppm_plan[p].category_id,
     priority |-> ppm_plan[p].priority,
     finished_date |-> ppm_plan[p].finished_date,
     next_due_date |-> ppm_plan[p].next_due_date,
     is_active |-> ppm_plan[p].is_active,
     retired_at |-> ppm_plan[p].retired_at,
     retired_reason |-> ppm_plan[p].retired_reason,
     suspended_until |-> ppm_plan[p].suspended_until,
     category_name |-> IF ppm_plan[p].category_id \in DOMAIN category
                       THEN category[ppm_plan[p].category_id]
                       ELSE None]

\* A client sends GET /api/ppm with a query string that carries site_id.
GetPpm(query) ==
    /\ request = NoRequest
    /\ request' = [op |-> "ppm", query |-> query]
    /\ UNCHANGED <<site, ppm_plan, clock, response, summary>>

\* The handler: the plans of the site, taken from ppm_plan when
\* include_inactive is not zero and from view_active_ppm otherwise, in the
\* order of their sort keys.
api_ppm_by_site ==
    /\ request.op = "ppm"
    /\ response = NoResponse
    /\ LET include_inactive == Param(request.query, "include_inactive", 0)
           from == IF include_inactive # 0 THEN DOMAIN ppm_plan ELSE view_active_ppm
           selected == {p \in from : ppm_plan[p].site_id = request.query["site_id"]}
       IN \E o \in OrderBySortKey(selected) :
             response' = [status |-> 200,
                          body |-> [i \in 1..Len(o) |-> PlanRow(o[i])]]
    /\ UNCHANGED <<site, ppm_plan, clock, request, summary>>

-----------------------------------------------------------------------------
(* The dashboard specification: schedule and lifecycle updates of every     *)
(* plan, the days passing, and the listing and the summary read in between. *)

DashboardBodies ==
    { [next_due_date |-> DueA],
      [next_due_date |-> DueB],
      [suspended_until |-> SuspendTo],
      [is_active |-> PyTrue],
      [is_active |-> PyFalse, retired_at |-> RetiredOn, retired_reason |-> Obsolete] }

\* Query strings with every combination of the plan-level filters.
PlanLevelQueries ==
    { [k \in K |-> IF k = "category_id" THEN c ELSE IF k = "priority" THEN p ELSE w] :
        K \in SUBSET {"category_id", "priority", "due_window"},
        c \in {1, 2}, p \in {Low}, w \in {All, Overdue, Soon, Quarter} }

\* Query strings with every combination of the site-level filters and limit.
SiteLevelQueries ==
    { [k \in K |-> IF k = "q" THEN <<"A">>
                   ELSE IF k = "status" THEN Active
                   ELSE IF k = "site_type" THEN School
                   ELSE 1] :
        K \in SUBSET {"q", "status", "site_type", "limit"} }

SiteQueries == PlanLevelQueries \cup SiteLevelQueries

NextDashboard ==
    \/ \E id \in PlanIds \cup {MissingPlan}, json \in DashboardBodies :
          PatchPpm(id, json)
    \/ api_update_ppm
    \/ \E query \in SiteQueries : GetSites(query)
    \/ api_sites
    \/ GetSummary
    \/ api_summary
    \/ Deliver
    \/ Tick

SpecDashboard == Init /\ [][NextDashboard]_vars

-----------------------------------------------------------------------------
(* The classifier specification: classify_site_status applied to an earliest *)
(* due date (absent, empty, or a day around the 30-day window) and a flag,  *)
(* on either of two days.                                                   *)

ClassifyOffsets == (0 - 3)..35

ClassifyInputs ==
    {None, <<>>} \cup {IsoFormat(Day0 + k) : k \in ClassifyOffsets}

InitClassify ==
    /\ site = SeedSites
    /\ ppm_plan = SeedPlans
    /\ clock \in {Day0, Day0 + 1}
    /\ request \in {[op |-> "classify", min_next_due |-> m, has_overdue |-> h] :
                      m \in ClassifyInputs, h \in BOOLEAN}
    /\ response = NoResponse
    /\ summary = NoSummary

Classify ==
    /\ request.op = "classify"
    /\ response = NoResponse
    /\ response' = [status |-> 200,
                    body |-> classify_site_status(request.min_next_due,
                                                  request.has_overdue)]
    /\ UNCHANGED <<site, ppm_plan, clock, request, summary>>

NextClassify == Classify

SpecClassify == InitClassify /\ [][NextClassify]_vars

-----------------------------------------------------------------------------
(* The site specification: status updates of sites S1 and S3 and of a site  *)
(* that does not exist, schedule and lifecycle updates of every plan, the   *)
(* days passing, and the summary read in between.                           *)

\* A site identifier that matches no row.
MissingSite == "S9"

SiteTargets == {"S1", "S3", MissingSite}

\* 'Open' is no status of SiteStatuses.
StatusInputs == {Active, Closed, <<"O", "p", "e", "n">>}

SiteSpecBodies ==
    { [next_due_date |-> DueB],
      [is_active |-> PyTrue],
      [is_active |-> PyFalse, retired_at |-> RetiredOn, retired_reason |-> Obsolete] }

NextSites ==
    \/ \E id \in SiteTargets, status \in StatusInputs : PatchSite(id, status)
    \/ api_update_site
    \/ \E id \in PlanIds, json \in SiteSpecBodies : PatchPpm(id, json)
    \/ api_update_ppm
    \/ GetSummary
    \/ api_summary
    \/ Deliver
    \/ Tick

SpecSites == Init /\ [][NextSites]_vars

-----------------------------------------------------------------------------
(* The plan specification: updates of every plan that write dates and texts *)
(* of the date shape, suspend, retire and reactivate, the days passing, and *)
(* the plans of a site and the site listing read in between.                *)

\* '2025-04-31': of the date shape, and no day of the calendar.
NoSuchDay == <<"2", "0", "2", "5", "-", "0", "4", "-", "3", "1">>

\* 'xxxx-xx-xx': of the date shape, and no date at all.
NotADate == <<"x", "x", "x", "x", "-", "x", "x", "-", "x", "x">>

PlanSpecBodies ==
    { [next_due_date |-> DueB],
      [next_due_date |-> NoSuchDay],
      [next_due_date |-> NotADate],
      [suspended_until |-> SuspendTo],
      [is_active |-> PyTrue],
      [is_active |-> PyFalse, retired_at |-> RetiredOn, retired_reason |-> Obsolete] }

PpmQueries ==
    { [k \in K |-> IF k = "site_id" THEN s ELSE i] :
        K \in {{"site_id"}, {"site_id", "include_inactive"}},
        s \in {"S1", "S2"}, i \in {0, 1} }

\* Query strings of the site listing that carry at most due_window.
WindowQueries == {query \in SiteQueries : DOMAIN query \subseteq {"due_window"}}

NextPlans ==
    \/ \E id \in PlanIds, json \in PlanSpecBodies : PatchPpm(id, json)
    \/ api_update_ppm
    \/ \E query \in PpmQueries : GetPpm(query)
    \/ api_ppm_by_site
    \/ \E query \in WindowQueries : GetSites(query)
    \/ api_sites
    \/ Deliver
    \/ Tick

SpecPlans == Init /\ [][NextPlans]_vars

-----------------------------------------------------------------------------
(* The concurrent specification: GET /api/summary runs statement by         *)
(* statement while plans 1 and 3 are retired and reactivated, site S1 is    *)
(* closed and reopened, and the days pass.                                  *)

ConcurrentBodies ==
    { [is_active |-> PyTrue],
      [is_active |-> PyFalse, retired_at |-> RetiredOn, retired_reason |-> Obsolete] }

NextConcurrent ==
    \/ SummaryBegin
    \/ SummarySelect
    \/ SummaryReturn
    \/ SummaryDeliver
    \/ \E id \in {1, 3}, json \in ConcurrentBodies : PatchPpm(id, json)
    \/ api_update_ppm
    \/ \E status \in {Active, Closed} : PatchSite("S1", status)
    \/ api_update_site
    \/ Deliver
    \/ Tick

SpecConcurrent == Init /\ [][NextConcurrent]_vars

-----------------------------------------------------------------------------
(* Properties of the lifecycle update, under Spec.                          *)

\* The exchange in flight is a PATCH /api/ppm that has been answered.
PatchAnswered == request.op = "update_ppm" /\ response # NoResponse

\* The JSON body carries key k.
Has(json, k) == k \in DOMAIN json

\* The JSON body carries key k with an explicit empty value: null or "".
HasEmpty(json, k) == Has(json, k) /\ json[k] \in {None, <<>>}

\* The JSON body carries key k with a text of the 'YYYY-MM-DD' shape.
HasDate(json, k) ==
    /\ Has(json, k)
    /\ json[k] \notin {None, <<>>}
    /\ Len(json[k]) = 10 /\ json[k][5] = "-" /\ json[k][8] = "-"

\* The JSON body carries a date-like key whose text has not that shape.
HasMalformedDate(json) ==
    \E k \in DateLikeFields :
        Has(json, k) /\ json[k] \notin {None, <<>>} /\ ~HasDate(json, k)

\* C1: every plan with is_active = true has retired_at and retired_reason
\* absent, in every state reached from the seed by PPM plan updates.
C1_ActiveHasNoRetirement ==
    \A p \in DOMAIN ppm_plan :
        ppm_plan[p].is_active = 1 =>
            ppm_plan[p].retired_at = None /\ ppm_plan[p].retired_reason = None

\* C2: every plan with is_active = false has a retired_at that is neither
\* NULL nor empty, in every state reached from the seed by PPM plan updates.
C2_InactiveHasRetiredAt ==
    \A p \in DOMAIN ppm_plan :
        ppm_plan[p].is_active = 0 => Truthy(ppm_plan[p].retired_at)

\* C2 witness: plan 1 has just been deactivated by a request that carries
\* retired_at as the empty text.
C2_Witness ==
    /\ PatchAnswered
    /\ response.status = 200
    /\ request.ppm_plan_id = 1
    /\ Has(request.json, "is_active") /\ request.json["is_active"] = PyFalse
    /\ Has(request.json, "retired_at") /\ request.json["retired_at"] = <<>>
    /\ ppm_plan[1].is_active = 0

\* C3: a request with is_active = true for an existing plan is never refused
\* as empty, and once it is accepted the plan is active with retired_at and
\* retired_reason absent, whatever else the request carries.
C3_ReactivationClears ==
    ( /\ PatchAnswered
      /\ request.ppm_plan_id \in DOMAIN ppm_plan
      /\ Has(request.json, "is_active")
      /\ request.json["is_active"] = PyTrue )
    => /\ response.status # 400
       /\ response.status = 200 =>
            /\ ppm_plan[request.ppm_plan_id].is_active = 1
            /\ ppm_plan[request.ppm_plan_id].retired_at = None
            /\ ppm_plan[request.ppm_plan_id].retired_reason = None

\* C3 witness: an accepted reactivation of plan 1 that also carries a
\* retired_reason.
C3_Witness ==
    /\ PatchAnswered
    /\ response.status = 200
    /\ request.ppm_plan_id = 1
    /\ Has(request.json, "is_active") /\ request.json["is_active"] = PyTrue
    /\ Has(request.json, "retired_reason")
    /\ request.json["retired_reason"] = Obsolete

\* C4: after an accepted request with is_active = false for an existing plan
\* the plan is inactive; its retired_at is the request's retired_at when that
\* is a date text, and the current date when the request carries none.
C4_DeactivationDate ==
    ( /\ PatchAnswered
      /\ response.status = 200
      /\ request.ppm_plan_id \in DOMAIN ppm_plan
      /\ Has(request.json, "is_active")
      /\ request.json["is_active"] = PyFalse )
    => /\ ppm_plan[request.ppm_plan_id].is_active = 0
       /\ HasDate(request.json, "retired_at") =>
            ppm_plan[request.ppm_plan_id].retired_at = request.json["retired_at"]
       /\ ~Has(request.json, "retired_at") =>
            ppm_plan[request.ppm_plan_id].retired_at = IsoFormat(clock)

\* C4 witness: on the day after the start, plan 1 has been deactivated by a
\* request without retired_at and holds that day as its retired_at.
C4_Witness ==
    /\ PatchAnswered
    /\ response.status = 200
    /\ request.ppm_plan_id = 1
    /\ Has(request.json, "is_active") /\ request.json["is_active"] = PyFalse
    /\ ~Has(request.json, "retired_at")
    /\ clock = Day0 + 1
    /\ ppm_plan[1].retired_at = IsoFormat(Day0 + 1)

\* C5: a request that carries finished_date, next_due_date, retired_reason
\* or suspended_until with an explicit empty value (and no malformed date)
\* is accepted and leaves that field absent on the plan.
C5_EmptyValueClears ==
    \A k \in {"finished_date", "next_due_date", "retired_reason", "suspended_until"} :
        ( /\ PatchAnswered
          /\ request.ppm_plan_id \in DOMAIN ppm_plan
          /\ HasEmpty(request.json, k)
          /\ ~HasMalformedDate(request.json) )
        => /\ response.status = 200
           /\ ppm_plan[request.ppm_plan_id][k] = None

\* C6: the handling of a PATCH /api/ppm whose body holds a malformed
\* date-like value, or is {}, answers with a client error and changes no row.
C6_RejectedBeforeMutation ==
    [][ ( /\ request.op = "update_ppm"
          /\ response = NoResponse
          /\ response' # NoResponse
          /\ (HasMalformedDate(request.json) \/ DOMAIN request.json = {}) )
        => /\ response'.status \in {400, 422}
           /\ ppm_plan' = ppm_plan
           /\ site' = site ]_vars

\* C6 witness: a body with a malformed next_due_date and a valid is_active
\* has been refused.
C6_Witness ==
    /\ PatchAnswered
    /\ request.ppm_plan_id = 1
    /\ Has(request.json, "next_due_date") /\ request.json["next_due_date"] = BadDate
    /\ Has(request.json, "is_active") /\ request.json["is_active"] = PyFalse
    /\ response.status = 422
    /\ ppm_plan[1].is_active = 1

-----------------------------------------------------------------------------
(* Properties of the listing and the summary, under SpecDashboard. The      *)
(* reference notions below compare days, not texts.                         *)

\* The exchange in flight is a GET /api/sites that has been answered.
SitesAnswered == request.op = "sites" /\ response # NoResponse

\* The exchange in flight is a GET /api/summary that has been answered.
SummaryAnswered == request.op = "summary" /\ response # NoResponse

\* Plan p is in the Active-PPM View: active, and not suspended beyond today.
InForce(p) ==
    /\ ppm_plan[p].is_active = 1
    /\ \/ ppm_plan[p].suspended_until = None
       \/ FromIsoFormat(ppm_plan[p].suspended_until) <= clock

\* Plan p's next due date is before today.
PastDue(p) ==
    /\ ppm_plan[p].next_due_date # None
    /\ FromIsoFormat(ppm_plan[p].next_due_date) < clock

\* Plan p's next due date is in [today, today + n days].
DueWithin(p, n) ==
    /\ ppm_plan[p].next_due_date # None
    /\ FromIsoFormat(ppm_plan[p].next_due_date) \in clock..(clock + n)

\* Text t contains text sub, letter case disregarded.
Contains(t, sub) ==
    /\ t # None
    /\ \E i \in 1..(Len(t) - Len(sub) + 1) :
          Lower(SubSeq(t, i, i + Len(sub) - 1)) = Lower(sub)

\* Site s satisfies the q, status and site_type filters of the query.
SiteLevelMatch(query, s) ==
    /\ "status" \in DOMAIN query => site[s].status = query["status"]
    /\ "site_type" \in DOMAIN query => site[s].site_type_code = query["site_type"]
    /\ "q" \in DOMAIN query =>
          \/ Contains(site[s].name, query["q"])
          \/ Contains(site[s].site_code, query["q"])
          \/ Contains(site[s].uprn, query["q"])

\* The query sets a plan-level restriction.
PlanLevelSet(query) ==
    \/ "category_id" \in DOMAIN query
    \/ "priority" \in DOMAIN query
    \/ Param(query, "due_window", All) \in {Overdue, Soon, Quarter}

\* Plan p meets every plan-level condition the query sets.
MeetsAll(query, p) ==
    /\ "category_id" \in DOMAIN query => ppm_plan[p].category_id = query["category_id"]
    /\ "priority" \in DOMAIN query => ppm_plan[p].priority = query["priority"]
    /\ Param(query, "due_window", All) = Overdue => PastDue(p)
    /\ Param(query, "due_window", All) = Soon => DueWithin(p, 30)
    /\ Param(query, "due_window", All) = Quarter => DueWithin(p, 90)

\* The site identifiers of the rows of an answered listing.
ListedSites == {response.body[i].site_id : i \in 1..Len(response.body)}

\* C7: a listing without category_id and priority and with due_window 'all'
\* or omitted holds exactly the sites that satisfy the q, status and
\* site_type filters, up to limit -- also a site without any plan in the
\* Active-PPM View.
C7_AllIsNoRestriction ==
    ( /\ SitesAnswered
      /\ ~PlanLevelSet(request.query) )
    => /\ response.status = 200
       /\ LET matching == {s \in DOMAIN site : SiteLevelMatch(request.query, s)}
              limit == Param(request.query, "limit", 50)
          IN /\ ListedSites \subseteq matching
             /\ Len(response.body) = IF Cardinality(matching) < limit
                                     THEN Cardinality(matching) ELSE limit

C9_OnlyInForcePlansCount ==
    /\ (SitesAnswered /\ response.status = 200) =>
          \A i \in 1..Len(response.body) :
              LET row == response.body[i]
                  late == {p \in DOMAIN ppm_plan : /\ ppm_plan[p].site_id = row.site_id
                                                   /\ InForce(p)
                                                   /\ PastDue(p)}
              IN /\ row.overdue_count = Cardinality(late)
                 /\ late = {} => row.ui_status # "DUE"
    /\ SummaryAnswered =>
          LET late == {p \in DOMAIN ppm_plan : InForce(p) /\ PastDue(p)}
          IN /\ response.body.overdue = Cardinality(late)
             /\ response.body.non_compliant_sites =
                   Cardinality({s \in DOMAIN site :
                                   \E p \in late : ppm_plan[p].site_id = s})

\* C9 witness: plan 1 is past due and suspended, plan 3 is past due and
\* retired, plan 2 is in force; the listing shows site S1 with no overdue
\* plan and not DUE.
C9_Witness ==
    /\ SitesAnswered
    /\ response.status = 200
    /\ PastDue(1) /\ ppm_plan[1].is_active = 1 /\ ~InForce(1)
    /\ PastDue(3) /\ ppm_plan[3].is_active = 0
    /\ InForce(2)
    /\ \E i \in 1..Len(response.body) :
          /\ response.body[i].site_id = "S1"
          /\ response.body[i].overdue_count = 0
          /\ response.body[i].ui_status # "DUE"

-----------------------------------------------------------------------------
(* Properties of the classifier, under SpecClassify.                        *)

Classified == request.op = "classify" /\ response # NoResponse

\* C10: the classifier answers DUE when has_overdue is true; otherwise OK
\* for an absent date, DUE for a date before today, DUE_SOON for a date from
\* today to today + 30 days, and OK for a later one.
C10_ClassifierRules ==
    Classified =>
        /\ request.has_overdue => response.body = "DUE"
        /\ (~request.has_overdue /\ request.min_next_due \in {None, <<>>}) =>
              response.body = "OK"
        /\ \A k \in (0 - 5)..40 :
              (~request.has_overdue /\ request.min_next_due = IsoFormat(clock + k)) =>
                  response.body = IF k < 0 THEN "DUE"
                                  ELSE IF k <= 30 THEN "DUE_SOON"
                                  ELSE "OK"

\* C10 witness: a date 30 days from today, no overdue plan: DUE_SOON.
C10_Witness ==
    /\ Classified
    /\ ~request.has_overdue
    /\ request.min_next_due = IsoFormat(clock + 30)
    /\ response.body = "DUE_SOON"

-----------------------------------------------------------------------------
(* Properties of the site status update and the summary, under SpecSites.   *)

\* The exchange in flight is a PATCH /api/site that has been answered.
SiteAnswered == request.op = "update_site" /\ response # NoResponse

\* C11: the handling of a site status update whose identifier matches no row
\* answers 404 and changes no site and no plan; the handling of one whose
\* identifier matches a row sets the status of that site to the value sent
\* and changes the status of no other site and no plan.
C11_SiteUpdateTouchesOneStatus ==
    [][ ( /\ request.op = "update_site"
          /\ response = NoResponse
          /\ response' # NoResponse
          /\ request.json.status \in SiteStatuses )
        => IF request.site_id \notin DOMAIN site
           THEN /\ response'.status = 404
                /\ site' = site
                /\ ppm_plan' = ppm_plan
           ELSE /\ response'.status = 200
                /\ site'[request.site_id].status = request.json.status
                /\ \A s \in DOMAIN site \ {request.site_id} :
                      site'[s].status = site[s].status
                /\ DOMAIN site' = DOMAIN site
                /\ ppm_plan' = ppm_plan ]_vars

\* C11 witness: site S1 has been closed by an earlier update while S3 is
\* still active, and an update of a site that does not exist has been
\* answered 404.
C11_Witness ==
    /\ SiteAnswered
    /\ request.site_id = MissingSite
    /\ request.json.status = Closed
    /\ response.status = 404
    /\ site["S1"].status = Closed
    /\ site["S3"].status = Active

\* Sites, of any status, with a plan that is in force and past due.
SitesWithOverdue ==
    {s \in DOMAIN site :
        \E p \in DOMAIN ppm_plan :
            ppm_plan[p].site_id = s /\ InForce(p) /\ PastDue(p)}

ActiveSites == {s \in DOMAIN site : site[s].status = Active}

\* C12: every summary returned has non_compliant_sites equal to the number
\* of sites, of any status, that have a plan in force and past due, and
\* compliant_sites equal to the number of Active sites minus that number,
\* below zero included.
C12_ComplianceCounters ==
    SummaryAnswered =>
        /\ response.body.non_compliant_sites = Cardinality(SitesWithOverdue)
        /\ response.body.active_sites = Cardinality(ActiveSites)
        /\ response.body.compliant_sites =
              Cardinality(ActiveSites) - Cardinality(SitesWithOverdue)

\* C12 witness: no site is Active, the closed sites S1 and S2 each have a
\* plan in force and past due, and the summary returned has
\* compliant_sites = -2.
C12_Witness ==
    /\ SummaryAnswered
    /\ ActiveSites = {}
    /\ SitesWithOverdue = {"S1", "S2"}
    /\ response.body.compliant_sites = 0 - 2

-----------------------------------------------------------------------------
(* Properties of the plans of a site and of the listing, under SpecPlans.   *)

\* The exchange in flight is a GET /api/ppm that has been answered.
PpmAnswered == request.op = "ppm" /\ response # NoResponse

\* The plans GET /api/ppm is to return for the query.
PlansToList(query) ==
    {p \in DOMAIN ppm_plan :
        /\ ppm_plan[p].site_id = query["site_id"]
        /\ \/ "include_inactive" \in DOMAIN query /\ query["include_inactive"] # 0
           \/ InForce(p)}

\* C13: the plans returned for a site are, each once, its plans in force
\* when inactive plans are not asked for and all its plans when they are; a
\* plan without next_due_date comes after every plan that has one, and
\* plans whose next_due_date is a date come in the order of their dates.
C13_PlansOfSiteOrdered ==
    PpmAnswered =>
        LET rows == response.body
        IN /\ {rows[i].ppm_plan_id : i \in DOMAIN rows} = PlansToList(request.query)
           /\ Len(rows) = Cardinality(PlansToList(request.query))
           /\ \A i, j \in DOMAIN rows :
                 (i < j /\ rows[i].next_due_date = None)
                 => rows[j].next_due_date = None
           /\ \A i, j \in DOMAIN rows :
                 ( /\ i < j
                   /\ rows[i].next_due_date # None /\ IsIsoDate(rows[i].next_due_date)
                   /\ rows[j].next_due_date # None /\ IsIsoDate(rows[j].next_due_date) )
                 => FromIsoFormat(rows[i].next_due_date)
                       <= FromIsoFormat(rows[j].next_due_date)

\* C14: a PATCH /api/ppm that writes next_due_date = d, d of the date shape,
\* for an existing plan leaves d in the store; no step but the handling of a
\* PATCH /api/ppm changes a plan; and a GET /api/ppm with inactive plans
\* included returns every plan of the site with the next_due_date the store
\* holds. So the read that follows the write, with no update in between,
\* yields d.
C14_DueDateRoundTrip ==
    [][ /\ ( /\ request.op = "update_ppm"
             /\ response = NoResponse
             /\ response' # NoResponse
             /\ request.ppm_plan_id \in DOMAIN ppm_plan
             /\ HasDate(request.json, "next_due_date")
             /\ ~HasMalformedDate(request.json) )
           => /\ response'.status = 200
              /\ ppm_plan'[request.ppm_plan_id].next_due_date
                    = request.json["next_due_date"]
        /\ ppm_plan' # ppm_plan
           => request.op = "update_ppm" /\ response = NoResponse
        /\ ( /\ request.op = "ppm"
             /\ response = NoResponse
             /\ response' # NoResponse
             /\ Param(request.query, "include_inactive", 0) # 0 )
           => \A p \in DOMAIN ppm_plan :
                 ppm_plan[p].site_id = request.query["site_id"]
                 => \E i \in DOMAIN response'.body :
                       /\ response'.body[i].ppm_plan_id = p
                       /\ response'.body[i].next_due_date = ppm_plan[p].next_due_date
      ]_vars

\* C14 witness: plan 1 was given next_due_date = DueB and retired, and the
\* read of site S1 with inactive plans included returns it with DueB.
C14_Witness ==
    /\ PpmAnswered
    /\ request.query["site_id"] = "S1"
    /\ Param(request.query, "include_inactive", 0) = 1
    /\ ppm_plan[1].is_active = 0
    /\ \E i \in DOMAIN response.body :
          /\ response.body[i].ppm_plan_id = 1
          /\ response.body[i].next_due_date = DueB

-----------------------------------------------------------------------------
(* Properties of the summary served beside writers, under SpecConcurrent.   *)

\* C15: every summary returned while plan and site updates are served
\* beside it has the counters of one store state, so its overdue and
\* due_next_30 do not exceed its total_ppm_active and its
\* non_compliant_sites does not exceed its overdue.
C15_SummaryIsOneSnapshot ==
    summary.pc = 8 =>
        /\ summary.body.overdue <= summary.body.total_ppm_active
        /\ summary.body.due_next_30 <= summary.body.total_ppm_active
        /\ summary.body.non_compliant_sites <= summary.body.overdue

\* C16: after any sequence of accepted plan updates, GET /api/sites returns
\* its rows for every query: the classifier raises on no row.
C16_ListingNeverRaises ==
    SitesAnswered => response.status = 200

=============================================================================
